---- MODULE Spec2Model ----
(***************************************************************************)
(* SuperFetch (the advanced fetch wrapper): one instance, its registry of  *)
(* AbortControllers keyed by `${method}::${url}`, and the calls issued on  *)
(* it.  A call is the async function #request; it runs synchronously up to *)
(* its first await and then resumes once per settled await.                *)
(*                                                                         *)
(* Scheduling follows the JavaScript event loop:                           *)
(*   - user operations (get/post/put/patch/delete, abortAll, set token)    *)
(*     may follow each other inside one synchronous block;                 *)
(*   - controller.abort() rejects the awaited promise of the call, whose   *)
(*     catch block runs later as a microtask (CatchAbort);                 *)
(*   - timers and transport events are macrotasks: they only run when no   *)
(*     microtask is pending.                                               *)
(* The transport (global fetch) is an external collaborator: it answers a  *)
(* dispatched request with a response, with a non-abort rejection, or not  *)
(* at all, and it honours the abort signal it was given.                   *)
(*                                                                         *)
(* Specifications: Spec (one instance and its calls), FairSpec (Spec with  *)
(* the event loop's fairness), SpecBuild (one call issued and answered,    *)
(* over a range of payloads and options), SpecFleet (several instances),   *)
(* SpecOverride (per-call options of 0 against instance defaults).         *)
(*                                                                         *)
(* TaskQueue (the concurrency limiter) is modelled by SpecQueue and        *)
(* FairSpecQueue, IntervalsHandler and TimeoutsHandler (the token-keyed    *)
(* timer managers) by SpecTimers and, for set called with arguments of    *)
(* any type, by SpecTimersArgs.                                            *)
(***************************************************************************)
EXTENDS Integers, Sequences, FiniteSets, TLC

\* ------------------------------------------------------------------ bounds
MaxCalls == 2
MaxRetries == 1
MaxNews == 2        \* constructor calls (specification SpecFleet)
MaxControllers == 2 \* calls issued on the instances of SpecFleet
MaxTasks == 3       \* tasks added to the TaskQueue (specification SpecQueue)
MaxConcurrency == 2 \* largest concurrency a TaskQueue is built with
MaxTimers == 3      \* timers created on a handler (specification SpecTimers)
MaxItems == 2       \* longest array value of a payload entry (specification SpecBuild)

\* ------------------------------------------------------------------ inputs
Null == "<null>"
Undefined == "<undefined>"

Root == "https://api.test"
Paths == {"/users"}
NewTokens == {"t2"}
Statuses == {200, 404}
ResponseTypes == {"application/json; charset=utf-8"}

NoData == [kind |-> "null"]
ObjData == [kind |-> "object",
            entries |-> << [key |-> "id", isArray |-> TRUE, items |-> <<1, 2>>] >>]
StrData == [kind |-> "string", text |-> "hi"]
FormDataV == [kind |-> "formdata"]

\* options passed to the constructor
CtorOptions ==
    { [x \in {} |-> 0],
      [token |-> "t1", retries |-> MaxRetries, logRequests |-> TRUE] }

\* per-call options
CallOptions ==
    { [x \in {} |-> 0],
      [retries |-> MaxRetries, timeout |-> 5, log |-> TRUE] }

\* ------------------------------------------------------- JavaScript helpers
Has(o, f) == f \in DOMAIN o

\* slip: a || b, which passes over a given 0
Nullish_falsy(o, f, dflt) == IF Has(o, f) /\ o[f] # 0 THEN o[f] ELSE dflt

\* a ?? b on an optional numeric field
Nullish(o, f, dflt) == IF Has(o, f) THEN o[f] ELSE dflt

\* a || b on an optional numeric field (0 is falsy)
OrElseNum(o, f, dflt) == IF Has(o, f) /\ o[f] # 0 THEN o[f] ELSE dflt

\* truthiness of a string-or-null value
Truthy(s) == s # Null /\ s # Undefined /\ s # ""

\* {...a, ...b}: the later spread wins
Spread(a, b) == b @@ a

RECURSIVE Includes(_, _)
Includes(s, sub) ==
    IF Len(s) < Len(sub) THEN FALSE
    ELSE IF SubSeq(s, 1, Len(sub)) = sub THEN TRUE
    ELSE Includes(SubSeq(s, 2, Len(s)), sub)

\* ------------------------------------------------------------- #buildUrl
RECURSIVE JoinAmp(_)
JoinAmp(q) ==
    IF q = <<>> THEN ""
    ELSE IF Len(q) = 1 THEN q[1]
    ELSE q[1] \o "&" \o JoinAmp(Tail(q))

RECURSIVE JoinComma(_)
JoinComma(q) ==
    IF q = <<>> THEN ""
    ELSE IF Len(q) = 1 THEN q[1]
    ELSE q[1] \o "," \o JoinComma(Tail(q))

\* slip: an array value is appended as one parameter (its elements joined by
\* commas, as String(array) gives)
AppendItems_joined(query, key, items) ==
    IF items = <<>> THEN query
    ELSE Append(query, key \o "=" \o JoinComma([i \in 1..Len(items) |-> ToString(items[i])]))

RECURSIVE AppendItems(_, _, _)
AppendItems(query, key, items) ==
    IF items = <<>> THEN query
    ELSE AppendItems(Append(query, key \o "=" \o ToString(Head(items))),
                     key, Tail(items))

RECURSIVE AppendEntries(_, _)
AppendEntries(query, entries) ==
    IF entries = <<>> THEN query
    ELSE LET e == Head(entries) IN
         AppendEntries(IF e.isArray
                         THEN AppendItems(query, e.key, e.items)
                         ELSE Append(query, e.key \o "=" \o ToString(e.value)),
                       Tail(entries))

\* new URL(path, root) for an origin-only root and an absolute-path reference
ResolveUrl(path, root) == root \o path

buildUrl(path, params) ==
    LET base  == ResolveUrl(path, Root)
        query == IF params.kind = "object"
                   THEN AppendEntries(<<>>, params.entries)
                   ELSE <<>>
    IN IF query = <<>> THEN base ELSE base \o "?" \o JoinAmp(query)

\* the url and the registry key computed at the top of #request
UrlOf(method, path, data) ==
    buildUrl(path, IF method = "GET" THEN data ELSE NoData)

\* slip: the key is the url alone
KeyOf_urlOnly(method, path, data) == "::" \o UrlOf(method, path, data)

KeyOf(method, path, data) == method \o "::" \o UrlOf(method, path, data)

\* ------------------------------------------------------------------- state
VARIABLES
    token,          \* #token
    defaultTimeout, \* #defaultTimeout
    defaultRetries, \* #defaultRetries
    logRequests,    \* #logRequests
    controllers,    \* #controllers: key -> id of the call that created the controller
    calls,          \* the calls issued so far; calls[c].aborted is controller.signal.aborted
    fleet,          \* several instances and their controllers (specification SpecFleet)
    tq,             \* a TaskQueue and the tasks added to it (specification SpecQueue)
    th              \* an IntervalsHandler or TimeoutsHandler (specification SpecTimers)

vars == <<token, defaultTimeout, defaultRetries, logRequests, controllers, calls,
          fleet, tq, th>>

\* values of the variables a specification does not use
NoFleet == [stage |-> "unused"]
NoQueue == [stage |-> "unused"]
NoTimers == [stage |-> "unused"]

EmptyMap == [k \in {} |-> 0]

CallIds == 1..Len(calls)

Awaiting == {"fetch", "okbody", "errbody"}

InFlight(c) == calls[c].pc \in Awaiting

\* the abort of c's controller has rejected the promise c awaits, and c's
\* catch block has not run yet
AbortPending(c) == InFlight(c) /\ calls[c].aborted

NoMicrotask == \A c \in CallIds : ~AbortPending(c)

\* --------------------------------------------------- request of one attempt
JsonValue(e) ==
    IF e.isArray
      THEN "[" \o JoinComma([i \in 1..Len(e.items) |-> ToString(e.items[i])]) \o "]"
      ELSE ToString(e.value)

\* JSON.stringify of a plain object
JSONstringify(data) ==
    "{" \o JoinComma([i \in 1..Len(data.entries) |->
                        "\"" \o data.entries[i].key \o "\":" \o JsonValue(data.entries[i])])
        \o "}"

NoBody == [kind |-> "undefined"]

\* slip: the type of a Blob is not looked at
ContentTypeOf_noBlobType(data) ==
    IF data.kind = "formdata" THEN "multipart/form-data"
    ELSE IF data.kind = "blob" THEN "application/octet-stream"
    ELSE IF data.kind = "object" THEN "application/json"
    ELSE IF data.kind = "string" THEN "text/plain"
    ELSE Undefined

\* the if / else-if chain on the payload
ContentTypeOf(data) ==
    IF data.kind = "formdata" THEN "multipart/form-data"
    ELSE IF data.kind = "blob"
      THEN (IF data.type # "" THEN data.type ELSE "application/octet-stream")
    ELSE IF data.kind = "object" THEN "application/json"
    ELSE IF data.kind = "string" THEN "text/plain"
    ELSE Undefined

BodyOf(data) ==
    IF data.kind = "formdata" THEN [kind |-> "formdata"]
    ELSE IF data.kind = "blob" THEN [kind |-> "blob", type |-> data.type]
    ELSE IF data.kind = "object" THEN [kind |-> "text", text |-> JSONstringify(data)]
    ELSE IF data.kind = "string" THEN [kind |-> "text", text |-> data.text]
    ELSE NoBody

HeadersOf(opts, tok) ==
    Spread(Spread(IF Truthy(tok) THEN [Authorization |-> "Bearer " \o tok] ELSE EmptyMap,
                  IF Has(opts, "token") /\ Truthy(opts.token)
                    THEN [Authorization |-> "Bearer " \o opts.token] ELSE EmptyMap),
           IF Has(opts, "headers") THEN opts.headers ELSE EmptyMap)

\* slip: the computed content type is spread last and overrides the caller's
RequestHeadersOf_ctLast(data, opts, tok) ==
    Spread(HeadersOf(opts, tok), ("Content-Type" :> ContentTypeOf(data)))

RequestHeadersOf(data, opts, tok) ==
    Spread(("Content-Type" :> ContentTypeOf(data)), HeadersOf(opts, tok))

\* the argument of fetch(url, {method, headers, body, signal})
FetchArgs(call, tok) ==
    [url     |-> UrlOf(call.method, call.path, call.data),
     method  |-> call.method,
     headers |-> RequestHeadersOf(call.data, call.opts, tok),
     body    |-> BodyOf(call.data)]

EffectiveRetries(call) ==
    IF Has(call.opts, "retries") THEN call.opts.retries ELSE defaultRetries

timeoutMsOf(call) == Nullish(call.opts, "timeout", defaultTimeout)

\* slip: the first attempt is not counted
attemptsOf_noFirst(call) == Nullish(call.opts, "retries", defaultRetries)

attemptsOf(call) == 1 + Nullish(call.opts, "retries", defaultRetries)

\* #log: one console line when logging is on for the instance or forced
Log(call, status) ==
    IF ~logRequests /\ ~(Has(call.opts, "log") /\ call.opts.log) THEN call
    ELSE [call EXCEPT !.log = Append(@, [method |-> call.method, path |-> call.path,
                                         status |-> status,
                                         attempt |-> call.attempt + 1])]

\* the try block up to `await fetch(...)`: arm the timer, build the request,
\* hand it to the transport
StartAttempt(call, tok) ==
    [call EXCEPT !.timers = (IF timeoutMsOf(call) > 0 THEN @ \cup {call.attempt} ELSE @),
                 !.sent  = Append(@, FetchArgs(call, tok)),
                 !.pc    = "fetch"]

AbortMessage == "This operation was aborted"

Nok(message) == [tag |-> "nok", message |-> message]

NoResponse == [status |-> 0, type |-> Null]

Return(call, value) ==
    [call EXCEPT !.pc = "done", !.outcome = value, !.resp = NoResponse]

\* clearTimeout(timeoutId): timeoutId is the timer armed by the current pass
\* through the loop, if any
ClearTimeout(call) == [call EXCEPT !.timers = @ \ {call.attempt}]

\* slip: an abort is not told apart from other errors
Catch_noAbortBranch(call, errName, message, tok) ==
    LET c0 == ClearTimeout(call) IN
    IF c0.attempt < attemptsOf(c0) - 1
      THEN StartAttempt([Log(c0, "RETRY") EXCEPT !.attempt = @ + 1,
                                                  !.resp = NoResponse], tok)
    ELSE Return(Log(c0, "ERROR"), Nok(message))

\* slip: the abort is only looked at once the retries are used up
Catch_retryFirst(call, errName, message, tok) ==
    LET c0 == ClearTimeout(call) IN
    IF c0.attempt < attemptsOf(c0) - 1
      THEN StartAttempt([Log(c0, "RETRY") EXCEPT !.attempt = @ + 1,
                                                  !.resp = NoResponse], tok)
    ELSE IF errName = "AbortError"
      THEN Return(Log(c0, "ABORT"), Nok(message))
    ELSE Return(Log(c0, "ERROR"), Nok(message))

\* slip: the last error is thrown to the caller, as the JSDoc of #request says
Catch_rethrow(call, errName, message, tok) ==
    LET c0 == ClearTimeout(call) IN
    IF errName = "AbortError"
      THEN Return(Log(c0, "ABORT"), Nok(message))
    ELSE IF c0.attempt < attemptsOf(c0) - 1
      THEN StartAttempt([Log(c0, "RETRY") EXCEPT !.attempt = @ + 1,
                                                  !.resp = NoResponse], tok)
    ELSE Return(Log(c0, "ERROR"), [tag |-> "rejected", message |-> message])

\* slip: the catch block does not disarm the timer of the failed attempt
Catch_noClear(call, errName, message, tok) ==
    IF errName = "AbortError"
      THEN Return(Log(call, "ABORT"), Nok(message))
    ELSE IF call.attempt < attemptsOf(call) - 1
      THEN StartAttempt([Log(call, "RETRY") EXCEPT !.attempt = @ + 1,
                                                    !.resp = NoResponse], tok)
    ELSE Return(Log(call, "ERROR"), Nok(message))

\* slip: an attempt that is retried leaves no log line
Catch_noRetryLog(call, errName, message, tok) ==
    LET c0 == ClearTimeout(call) IN
    IF errName = "AbortError"
      THEN Return(Log(c0, "ABORT"), Nok(message))
    ELSE IF c0.attempt < attemptsOf(c0) - 1
      THEN StartAttempt([c0 EXCEPT !.attempt = @ + 1, !.resp = NoResponse], tok)
    ELSE Return(Log(c0, "ERROR"), Nok(message))

\* the catch block
Catch(call, errName, message, tok) ==
    LET c0 == ClearTimeout(call) IN
    IF errName = "AbortError"
      THEN Return(Log(c0, "ABORT"), Nok(message))
    ELSE IF c0.attempt < attemptsOf(c0) - 1
      THEN StartAttempt([Log(c0, "RETRY") EXCEPT !.attempt = @ + 1,
                                                  !.resp = NoResponse], tok)
    ELSE Return(Log(c0, "ERROR"), Nok(message))

\* ------------------------------------------------------------- constructor
Init ==
    \E options \in CtorOptions :
        /\ token = (IF Has(options, "token") /\ Truthy(options.token)
                      THEN options.token ELSE Null)
        /\ logRequests = (Has(options, "logRequests") /\ options.logRequests)
        /\ defaultTimeout = OrElseNum(options, "timeout", 0)
        /\ defaultRetries = OrElseNum(options, "retries", 0)
        /\ controllers = EmptyMap
        /\ calls = <<>>
            /\ fleet = NoFleet
        /\ tq = NoQueue
        /\ th = NoTimers

\* ---------------------------------------------------------------- registry
MapDelete(m, key) == [k \in DOMAIN m \ {key} |-> m[k]]

MapSet(m, key, v) == (key :> v) @@ m

\* slip: the registered controller is dropped without being aborted
abort_noSignal(cs, ctrls, key) == cs

\* #abort(key): controller.abort() on the registered controller, then delete
abort(cs, ctrls, key) ==
    IF key \in DOMAIN ctrls
      THEN [cs EXCEPT ![ctrls[key]].aborted = TRUE]
      ELSE cs

\* history only: which operation first cancelled a call that was in flight
Cancelled(call, by) ==
    IF call.pc \in Awaiting /\ call.cancelBy = "none"
      THEN [call EXCEPT !.cancelBy = by]
      ELSE call

NewCall(method, path, data, opts) ==
    [method |-> method, path |-> path, data |-> data, opts |-> opts,
     aborted |-> FALSE, pc |-> "start", attempt |-> 0, timers |-> {},
     sent |-> <<>>, resp |-> NoResponse, log |-> <<>>,
     outcome |-> [tag |-> "pending"],
     superseded |-> FALSE, cancelBy |-> "none"]

CallKey(call) == KeyOf(call.method, call.path, call.data)

\* #request up to its first await: #buildUrl, #createAbortController, the
\* option defaults and the first pass through the loop
Request(method, path, data, opts) ==
    /\ Len(calls) < MaxCalls
    /\ LET key  == KeyOf(method, path, data)
           new  == NewCall(method, path, data, opts)
           hist == [c \in CallIds |->
                      IF CallKey(calls[c]) = key /\ InFlight(c)
                        THEN [Cancelled(calls[c], "supersede") EXCEPT !.superseded = TRUE]
                        ELSE calls[c]]
       IN /\ calls' = Append(abort(hist, controllers, key),
                             IF attemptsOf(new) < 1
                               THEN Return(new, [tag |-> "undefined"])
                               ELSE StartAttempt(new, token))
          /\ controllers' = MapSet(MapDelete(controllers, key), key, Len(calls) + 1)
    /\ UNCHANGED <<token, defaultTimeout, defaultRetries, logRequests, fleet, tq, th>>

Get ==
    \E path \in Paths, params \in {NoData, ObjData}, opts \in CallOptions :
        Request("GET", path, params, opts)

Post ==
    \E path \in Paths, data \in {ObjData}, opts \in CallOptions :
        Request("POST", path, data, opts)

Put ==
    \E path \in Paths, data \in {StrData}, opts \in CallOptions :
        Request("PUT", path, data, opts)

Patch ==
    \E path \in Paths, data \in {FormDataV}, opts \in CallOptions :
        Request("PATCH", path, data, opts)

Delete ==
    \E path \in Paths, opts \in CallOptions :
        Request("DELETE", path, NoData, opts)

\* slip: the registry is cleared but the controllers are not aborted
AbortAll_noAbort ==
    /\ controllers' = EmptyMap
    /\ UNCHANGED <<token, defaultTimeout, defaultRetries, logRequests, calls,
                   fleet, tq, th>>

\* slip: the controllers are aborted but the registry is not cleared
AbortAll_noClear ==
    /\ LET reg == {controllers[k] : k \in DOMAIN controllers} IN
       calls' = [c \in CallIds |->
                   IF c \in reg
                     THEN [Cancelled(calls[c], "abortAll") EXCEPT !.aborted = TRUE]
                     ELSE calls[c]]
    /\ UNCHANGED <<token, defaultTimeout, defaultRetries, logRequests, controllers,
                 fleet, tq, th>>

\* abortAll(): abort every registered controller, then clear the registry
AbortAll ==
    /\ LET reg == {controllers[k] : k \in DOMAIN controllers} IN
       calls' = [c \in CallIds |->
                   IF c \in reg
                     THEN [Cancelled(calls[c], "abortAll") EXCEPT !.aborted = TRUE]
                     ELSE calls[c]]
    /\ controllers' = EmptyMap
    /\ UNCHANGED <<token, defaultTimeout, defaultRetries, logRequests, fleet, tq, th>>

\* set token(value)
SetToken ==
    /\ \E value \in NewTokens : token' = value
    /\ UNCHANGED <<defaultTimeout, defaultRetries, logRequests, controllers, calls,
                 fleet, tq, th>>

\* ------------------------------------------------- continuations of #request
Frame == UNCHANGED <<token, defaultTimeout, defaultRetries, logRequests, controllers,
                 fleet, tq, th>>

Ok(status) == status >= 200 /\ status <= 299

\* the timer callback () => controller.abort()
TimerFires(c) ==
    /\ NoMicrotask
    /\ \E t \in calls[c].timers :
         calls' = [calls EXCEPT ![c] = [Cancelled(calls[c], "timeout")
                                          EXCEPT !.aborted = TRUE, !.timers = @ \ {t}]]
    /\ Frame

\* slip: the timer stays armed while the body is read
FetchResponds_noClear(c) ==
    /\ NoMicrotask
    /\ calls[c].pc = "fetch"
    /\ \E status \in Statuses, type \in ResponseTypes \cup {Null} :
         calls' = [calls EXCEPT ![c] =
                     [@ EXCEPT
                        !.resp = [status |-> status, type |-> type],
                        !.pc   = IF Ok(status) THEN "okbody" ELSE "errbody"]]
    /\ Frame

\* fetch resolves with a response: clearTimeout, then the body is awaited
FetchResponds(c) ==
    /\ NoMicrotask
    /\ calls[c].pc = "fetch"
    /\ \E status \in Statuses, type \in ResponseTypes \cup {Null} :
         calls' = [calls EXCEPT ![c] =
                     [ClearTimeout(@) EXCEPT
                        !.resp = [status |-> status, type |-> type],
                        !.pc   = IF Ok(status) THEN "okbody" ELSE "errbody"]]
    /\ Frame

\* fetch rejects with an error that is not an abort
FetchFails(c) ==
    /\ NoMicrotask
    /\ calls[c].pc = "fetch"
    /\ calls' = [calls EXCEPT ![c] = Catch(@, "TypeError", "fetch failed", token)]
    /\ Frame

\* response.text() of a non-success response resolves: throw new Error(...);
\* of the error details only the status is kept in the message
ErrorBodyRead(c) ==
    /\ NoMicrotask
    /\ calls[c].pc = "errbody"
    /\ calls' = [calls EXCEPT ![c] =
                   Catch(@, "Error", "Request failed: " \o ToString(@.resp.status), token)]
    /\ Frame

\* the decoder chosen from the response Content-Type
DecoderOf(type) ==
    IF type # Null /\ Includes(type, "application/json") THEN "json"
    ELSE IF type # Null /\ Includes(type, "text/plain") THEN "text"
    ELSE IF type # Null /\ Includes(type, "application/octet-stream") THEN "blob"
    ELSE "arrayBuffer"

\* the body of a success response is decoded: log and return it
OkBodyRead(c) ==
    /\ NoMicrotask
    /\ calls[c].pc = "okbody"
    /\ calls' = [calls EXCEPT ![c] =
                   Return(Log(@, ToString(@.resp.status)),
                          [tag |-> "payload", decoded |-> DecoderOf(@.resp.type)])]
    /\ Frame

\* reading or parsing the body fails (connection lost, invalid JSON)
BodyFails(c) ==
    /\ NoMicrotask
    /\ calls[c].pc \in {"okbody", "errbody"}
    /\ calls' = [calls EXCEPT ![c] = Catch(@, "TypeError", "body failed", token)]
    /\ Frame

\* slip: the catch block also removes the registry entry of its key
CatchAbort_unregister(c) ==
    /\ AbortPending(c)
    /\ calls' = [calls EXCEPT ![c] = Catch(@, "AbortError", AbortMessage, token)]
    /\ controllers' = MapDelete(controllers, CallKey(calls[c]))
    /\ UNCHANGED <<token, defaultTimeout, defaultRetries, logRequests, fleet, tq, th>>

\* the awaited promise was rejected by controller.abort()
CatchAbort(c) ==
    /\ AbortPending(c)
    /\ calls' = [calls EXCEPT ![c] = Catch(@, "AbortError", AbortMessage, token)]
    /\ Frame

Next ==
    \/ Get
    \/ Post
    \/ Put
    \/ Patch
    \/ Delete
    \/ AbortAll
    \/ SetToken
    \/ \E c \in CallIds : TimerFires(c)
    \/ \E c \in CallIds : FetchResponds(c)
    \/ \E c \in CallIds : FetchFails(c)
    \/ \E c \in CallIds : ErrorBodyRead(c)
    \/ \E c \in CallIds : OkBodyRead(c)
    \/ \E c \in CallIds : BodyFails(c)
    \/ \E c \in CallIds : CatchAbort(c)

Spec == Init /\ [][Next]_vars

\* ------------------------------------------- per-call options set to zero
\* Specification SpecOverride: the calls of Spec on an instance built with a
\* default timeout and default retries, with per-call options that leave
\* them out or set one of them to 0.
OverrideCtorOptions == { [timeout |-> 7, retries |-> MaxRetries] }

OverrideOptions ==
    { [x \in {} |-> 0],
      [retries |-> 0],
      [timeout |-> 0] }

InitOverride ==
    \E options \in OverrideCtorOptions :
        /\ token = (IF Has(options, "token") /\ Truthy(options.token)
                      THEN options.token ELSE Null)
        /\ logRequests = (Has(options, "logRequests") /\ options.logRequests)
        /\ defaultTimeout = OrElseNum(options, "timeout", 0)
        /\ defaultRetries = OrElseNum(options, "retries", 0)
        /\ controllers = EmptyMap
        /\ calls = <<>>
            /\ fleet = NoFleet
        /\ tq = NoQueue
        /\ th = NoTimers

\* get(path, undefined, opts) and delete(path, opts)
CallWith ==
    \E method \in {"GET", "DELETE"}, path \in Paths, opts \in OverrideOptions :
        Request(method, path, NoData, opts)

NextOverride ==
    \/ CallWith
    \/ \E c \in CallIds : TimerFires(c)
    \/ \E c \in CallIds : FetchResponds(c)
    \/ \E c \in CallIds : FetchFails(c)
    \/ \E c \in CallIds : ErrorBodyRead(c)
    \/ \E c \in CallIds : OkBodyRead(c)
    \/ \E c \in CallIds : BodyFails(c)
    \/ \E c \in CallIds : CatchAbort(c)

SpecOverride == InitOverride /\ [][NextOverride]_vars

\* What the event loop guarantees: an armed timer fires unless it is cleared,
\* and a rejected await resumes its call.  Nothing is assumed of the transport:
\* it may leave a fetch or a body read unanswered for ever.
FairSpec ==
    /\ Spec
    /\ \A c \in 1..MaxCalls :
         /\ WF_vars(c \in CallIds /\ TimerFires(c))
         /\ WF_vars(c \in CallIds /\ CatchAbort(c))

\* ------------------------------------------------------------------ claims
Done(c) == calls[c].pc = "done"

SameKey(c, d) == CallKey(calls[c]) = CallKey(calls[d])

Registered(c) ==
    /\ CallKey(calls[c]) \in DOMAIN controllers
    /\ controllers[CallKey(calls[c])] = c

\* C1: a call that was in flight when a later call with the same method and
\* full URL was issued has its await rejected and resolves with
\* {result:'nok', message}, never with a decoded payload.
C1_SupersededResolvesNok ==
    \A c \in CallIds :
        calls[c].superseded =>
            /\ InFlight(c) => calls[c].aborted
            /\ Done(c) => calls[c].outcome.tag = "nok"

C1_Witness ==
    \E c \in CallIds : \E d \in CallIds :
        /\ c < d /\ SameKey(c, d)
        /\ calls[c].superseded /\ calls[c].outcome.tag = "nok"
        /\ calls[d].outcome.tag = "payload"

\* C2: the handle of a call that superseded an older one is triggered only by
\* its own timer, by abortAll or by a still newer call under the key, and is
\* unregistered only by abortAll or by such a newer call; nothing the older
\* call does (its catch block, its timer) touches it.
C2_NewerCallUntouched ==
    [][\A d \in CallIds :
         (\E c \in 1..(d - 1) : SameKey(c, d) /\ calls[c].superseded) =>
            LET newer == /\ Len(calls') > Len(calls)
                         /\ CallKey(calls'[Len(calls')]) = CallKey(calls[d])
            IN /\ (~calls[d].aborted /\ calls'[d].aborted)
                     => (TimerFires(d) \/ AbortAll \/ newer)
               /\ (Registered(d) /\ ~(Registered(d))')
                     => (AbortAll \/ newer)]_vars

C2_Witness ==
    \E c \in CallIds : \E d \in CallIds :
        /\ c < d /\ SameKey(c, d)
        /\ calls[c].superseded /\ Done(c) /\ timeoutMsOf(calls[c]) > 0
        /\ InFlight(d) /\ ~calls[d].aborted /\ Registered(d)

\* C3: a call with retries = n that is never cancelled and whose every attempt
\* fails dispatches exactly n+1 requests and resolves with {result:'nok', message}.
C3_ExactlyNPlusOneAttempts ==
    \A c \in CallIds :
        calls[c].cancelBy = "none" =>
            /\ Len(calls[c].sent) <= EffectiveRetries(calls[c]) + 1
            /\ (Done(c) /\ calls[c].outcome.tag # "payload") =>
                  /\ Len(calls[c].sent) = EffectiveRetries(calls[c]) + 1
                  /\ calls[c].outcome.tag = "nok"
                  /\ calls[c].outcome.message # AbortMessage

C3_Witness ==
    \E c \in CallIds :
        /\ Done(c) /\ calls[c].cancelBy = "none"
        /\ calls[c].outcome.tag = "nok"
        /\ EffectiveRetries(calls[c]) >= 1
        /\ Len(calls[c].sent) = EffectiveRetries(calls[c]) + 1

\* C4: once the timeout has fired while the call waits for the transport, the
\* call dispatches nothing more and resolves with {result:'nok', message}.
C4_TimeoutIsTerminal ==
    [][\A c \in CallIds :
         calls[c].cancelBy = "timeout" =>
            /\ calls'[c].sent = calls[c].sent
            /\ calls'[c].pc \in {calls[c].pc, "done"}
            /\ calls'[c].pc = "done" => calls'[c].outcome = Nok(AbortMessage)]_vars

C4_Witness ==
    \E c \in CallIds :
        /\ calls[c].cancelBy = "timeout" /\ Done(c)
        /\ calls[c].outcome = Nok(AbortMessage)
        /\ Len(calls[c].sent) <= EffectiveRetries(calls[c])

\* C5: once abortAll or a superseding call has triggered the handle of a call
\* in flight, that call resumes at once (no transport or timer event comes
\* first), dispatches nothing more and resolves with {result:'nok', message}.
C5_ExplicitAbortIsTerminal ==
    [][\A c \in CallIds :
         calls[c].cancelBy \in {"abortAll", "supersede"} =>
            /\ InFlight(c) => ~NoMicrotask
            /\ calls'[c].sent = calls[c].sent
            /\ calls'[c].pc \in {calls[c].pc, "done"}
            /\ calls'[c].pc = "done" => calls'[c].outcome = Nok(AbortMessage)]_vars

C5_Witness ==
    \E c \in CallIds : \E d \in CallIds :
        /\ calls[c].cancelBy = "abortAll" /\ calls[d].cancelBy = "supersede"
        /\ Done(c) /\ Done(d)
        /\ Len(calls[c].sent) <= EffectiveRetries(calls[c])
        /\ Len(calls[d].sent) <= EffectiveRetries(calls[d])

\* C6: abortAll triggers every registered handle and empties the registry; a
\* call issued afterwards gets a fresh, untriggered handle registered under
\* its key.
C6_AbortAllClearsRegistry ==
    [][/\ AbortAll =>
            /\ controllers' = EmptyMap
            /\ \A k \in DOMAIN controllers : calls'[controllers[k]].aborted
       /\ Len(calls') > Len(calls) =>
            LET d == Len(calls') IN
            /\ ~calls'[d].aborted
            /\ CallKey(calls'[d]) \in DOMAIN controllers'
            /\ controllers'[CallKey(calls'[d])] = d]_vars

C6_Witness ==
    \E c \in CallIds : \E d \in CallIds :
        /\ c < d /\ SameKey(c, d)
        /\ calls[c].cancelBy = "abortAll" /\ calls[c].outcome.tag = "nok"
        /\ ~calls[d].superseded /\ calls[d].cancelBy = "none"
        /\ calls[d].outcome.tag = "payload"

\* C7: once a call has settled and no newer call was issued under its key,
\* the registry holds no entry for that key.
C7_RegistryCleanedOnSettle ==
    \A c \in CallIds :
        (Done(c) /\ ~\E d \in CallIds : d > c /\ SameKey(c, d))
            => CallKey(calls[c]) \notin DOMAIN controllers

\* C8: the promise of a call is never rejected: a settled call holds a decoded
\* payload or {result:'nok', message}.
C8_NeverRejected ==
    \A c \in CallIds :
        IF Done(c) THEN calls[c].outcome.tag \in {"payload", "nok"}
                   ELSE calls[c].outcome.tag = "pending"

C8_Witness ==
    \E c \in CallIds : \E d \in CallIds :
        /\ Done(c) /\ calls[c].outcome = Nok("fetch failed")
        /\ Done(d) /\ calls[d].outcome = Nok("Request failed: 404")

\* C9: every attempt of a call carries the Authorization header derived from
\* the instance token in effect when the call was issued (the first attempt
\* is built while the call is being issued).
C9_AttemptsCarryIssueToken ==
    \A c \in CallIds :
        \A i \in 1..Len(calls[c].sent) :
            calls[c].sent[i].headers = calls[c].sent[1].headers

\* C10: every GET and every DELETE request is dispatched without a body.
C10_GetDeleteNoBody ==
    \A c \in CallIds :
        calls[c].method \in {"GET", "DELETE"} =>
            \A i \in 1..Len(calls[c].sent) : calls[c].sent[i].body = NoBody

\* ------------------------------------------ one call, issued and answered
\* Specification SpecBuild issues one call on a fresh instance, for every verb,
\* payload and option of a bounded set, against a transport that answers 200
\* and echoes the text of the request body (nothing for a body that is not
\* text) under a declared type.
Verbs == {"GET", "POST", "PUT", "PATCH", "DELETE"}

ItemValues == {1, 2}
ScalarValues == {7, 10}

Arrays == UNION {[1..n -> ItemValues] : n \in 0..MaxItems}

EntriesOf(key) ==
    {[key |-> key, isArray |-> TRUE, items |-> a] : a \in Arrays}
      \cup {[key |-> key, isArray |-> FALSE, value |-> v] : v \in ScalarValues}

Objects ==
    {<<>>} \cup {<<e>> : e \in EntriesOf("id")}
           \cup {<<e, f>> : e \in EntriesOf("id"), f \in EntriesOf("q")}

BuildData ==
    {NoData, FormDataV,
     [kind |-> "blob", type |-> ""], [kind |-> "blob", type |-> "image/png"],
     StrData, [kind |-> "string", text |-> ""]}
      \cup {[kind |-> "object", entries |-> o] : o \in Objects}

BuildHeaders ==
    {EmptyMap,
     [Authorization |-> "Basic x"],
     ("Content-Type" :> "application/xml"),
     [Authorization |-> "Basic x"] @@ ("Content-Type" :> "application/xml")}

BuildOptions ==
    {t @@ h : t \in {EmptyMap, [token |-> "o1"], [token |-> ""]},
              h \in {EmptyMap} \cup {[headers |-> x] : x \in BuildHeaders}}

DeclaredTypes == {"application/json; charset=utf-8", "text/plain", Null}

InitBuild ==
    /\ token \in {Null, "t1"}
    /\ logRequests = FALSE
    /\ defaultTimeout = 0
    /\ defaultRetries = 0
    /\ controllers = EmptyMap
    /\ calls = <<>>
    /\ fleet = NoFleet
    /\ tq = NoQueue
    /\ th = NoTimers

\* one call of a verb on the fresh instance, run up to its await of fetch;
\* delete(path, opts) passes null as data
BuildCall ==
    /\ calls = <<>>
    /\ \E method \in Verbs, path \in Paths, data \in BuildData, opts \in BuildOptions :
         /\ method = "DELETE" => data = NoData
         /\ Request(method, path, data, opts)

Char(s, i) == SubSeq(s, i, i)

IsDigit(ch) == \E d \in 0..9 : ToString(d) = ch

Digit(ch) == CHOOSE d \in 0..9 : ToString(d) = ch

\* JSON.parse on the texts JSON.stringify gives for the payloads above: an
\* object whose members are numbers or arrays of numbers
RECURSIVE ParseNumber(_, _, _)
ParseNumber(s, i, acc) ==
    IF i <= Len(s) /\ IsDigit(Char(s, i))
      THEN ParseNumber(s, i + 1, acc * 10 + Digit(Char(s, i)))
      ELSE [val |-> acc, next |-> i]

RECURSIVE ParseItems(_, _, _)
ParseItems(s, i, items) ==
    IF Char(s, i) = "]" THEN [val |-> items, next |-> i + 1]
    ELSE IF Char(s, i) = "," THEN ParseItems(s, i + 1, items)
    ELSE LET n == ParseNumber(s, i, 0) IN ParseItems(s, n.next, Append(items, n.val))

RECURSIVE ClosingQuote(_, _)
ClosingQuote(s, i) == IF Char(s, i) = "\"" THEN i ELSE ClosingQuote(s, i + 1)

RECURSIVE ParseMembers(_, _, _)
ParseMembers(s, i, entries) ==
    IF Char(s, i) = "}" THEN entries
    ELSE IF Char(s, i) = "," THEN ParseMembers(s, i + 1, entries)
    ELSE LET q   == ClosingQuote(s, i + 1)
             key == SubSeq(s, i + 1, q - 1)
             v   == q + 2
         IN IF Char(s, v) = "["
              THEN LET a == ParseItems(s, v + 1, <<>>) IN
                   ParseMembers(s, a.next,
                       Append(entries, [key |-> key, isArray |-> TRUE, items |-> a.val]))
              ELSE LET n == ParseNumber(s, v, 0) IN
                   ParseMembers(s, n.next,
                       Append(entries, [key |-> key, isArray |-> FALSE, value |-> n.val]))

JSONparse(s) ==
    IF Len(s) >= 2 /\ Char(s, 1) = "{"
      THEN [kind |-> "object", entries |-> ParseMembers(s, 2, <<>>)]
      ELSE [kind |-> "SyntaxError"]

\* response.json() / .text() / .blob() / .arrayBuffer() on a body with this text
DecodeBody(decoder, text) ==
    IF decoder = "json" THEN JSONparse(text)
    ELSE IF decoder = "text" THEN [kind |-> "string", text |-> text]
    ELSE [kind |-> decoder]

\* the text the echoing transport answers a request with
EchoOf(req) == IF req.body.kind = "text" THEN req.body.text ELSE ""

\* fetch resolves with the echo, 200 under a declared type: clearTimeout, the
\* decoder is picked and its promise is awaited
EchoResponds(c) ==
    /\ NoMicrotask
    /\ calls[c].pc = "fetch"
    /\ \E type \in DeclaredTypes :
         calls' = [calls EXCEPT ![c] =
                     [ClearTimeout(@) EXCEPT
                        !.resp = [status |-> 200, type |-> type,
                                  body |-> EchoOf(calls[c].sent[Len(calls[c].sent)])],
                        !.pc   = "okbody"]]
    /\ Frame

\* the awaited decoder settles: the decoded body is logged and returned, a
\* SyntaxError of response.json() goes to the catch block
EchoBodyRead(c) ==
    /\ NoMicrotask
    /\ calls[c].pc = "okbody"
    /\ LET resp  == calls[c].resp
           value == DecodeBody(DecoderOf(resp.type), resp.body)
       IN calls' = [calls EXCEPT ![c] =
                      IF value.kind = "SyntaxError"
                        THEN Catch(@, "SyntaxError", "Unexpected token", token)
                        ELSE Return(Log(@, ToString(resp.status)),
                                    [tag |-> "payload", declared |-> resp.type,
                                     decoded |-> DecoderOf(resp.type), value |-> value])]
    /\ Frame

NextBuild ==
    \/ BuildCall
    \/ \E c \in CallIds : EchoResponds(c)
    \/ \E c \in CallIds : EchoBodyRead(c)

SpecBuild == InitBuild /\ [][NextBuild]_vars

\* ------------------------------------------------------- several instances
\* Specification SpecFleet: constructor calls with valid and invalid roots,
\* and on the instances they give the registry operations of a call
\* (#createAbortController) and abortAll.  Only the controller of a call is
\* kept: its owner, its key and whether it was aborted.
StrRoot(text) == [kind |-> "string", text |-> text]

Roots ==
    {StrRoot("https://api.test"), StrRoot("http://api.test"),
     StrRoot(""), StrRoot("not-a-url"),
     [kind |-> "null"], [kind |-> "number", value |-> 42]}

FleetOptions == {EmptyMap, [token |-> "t1"]}

FleetMethods == {"GET", "POST"}

StartsWith(s, prefix) == Len(s) >= Len(prefix) /\ SubSeq(s, 1, Len(prefix)) = prefix

\* slip: any non-empty string is accepted as root
ValidRoot_noScheme(root) == root.kind = "string" /\ root.text # ""

\* !(!root || typeof root !== 'string' || !/^https?:\/\//.test(root))
ValidRoot(root) ==
    /\ root.kind \notin {"null", "undefined"}
    /\ ~(root.kind = "string" /\ root.text = "")
    /\ ~(root.kind = "number" /\ root.value = 0)
    /\ root.kind = "string"
    /\ StartsWith(root.text, "http://") \/ StartsWith(root.text, "https://")

InvalidRootMessage == "Invalid 'root' URL provided."

InitFleet ==
    /\ token = Null
    /\ logRequests = FALSE
    /\ defaultTimeout = 0
    /\ defaultRetries = 0
    /\ controllers = EmptyMap
    /\ calls = <<>>
    /\ tq = NoQueue
    /\ th = NoTimers
    /\ fleet = [stage |-> "fleet", news |-> <<>>, instances |-> <<>>,
                registries |-> <<>>, ctrls |-> <<>>, last |-> 0]

FleetFrame == UNCHANGED <<token, defaultTimeout, defaultRetries, logRequests,
                          controllers, calls, tq, th>>

\* new SuperFetch(root, options)
Construct ==
    /\ fleet.stage = "fleet"
    /\ Len(fleet.news) < MaxNews
    /\ \E root \in Roots, options \in FleetOptions :
         fleet' =
           IF ~ValidRoot(root)
             THEN [fleet EXCEPT
                     !.news = Append(@, [root |-> root, threw |-> TRUE,
                                         message |-> InvalidRootMessage]),
                     !.last = 0]
             ELSE [fleet EXCEPT
                     !.news = Append(@, [root |-> root, threw |-> FALSE,
                                         message |-> ""]),
                     !.instances = Append(@,
                         [root  |-> root.text,
                          token |-> IF Has(options, "token") /\ Truthy(options.token)
                                      THEN options.token ELSE Null]),
                     !.registries = Append(@, EmptyMap),
                     !.last = 0]
    /\ FleetFrame

\* slip: #controllers is one Map shared by all instances
RegistryOf_shared(i) == 1

\* this.#controllers of instance i: the Map its constructor created
RegistryOf(i) == i

FleetKey(i, method, path) ==
    method \o "::" \o ResolveUrl(path, fleet.instances[i].root)

\* a call on instance i, as far as its controller goes: #createAbortController
IssueCall(i) ==
    /\ Len(fleet.ctrls) < MaxControllers
    /\ \E method \in FleetMethods, path \in Paths :
         LET key == FleetKey(i, method, path)
             r   == RegistryOf(i)
             reg == fleet.registries[r]
         IN fleet' = [fleet EXCEPT
                        !.ctrls = Append(abort(@, reg, key),
                                         [owner |-> i, key |-> key, aborted |-> FALSE]),
                        !.registries[r] = MapSet(MapDelete(reg, key), key,
                                                 Len(fleet.ctrls) + 1),
                        !.last = i]
    /\ FleetFrame

\* abortAll() on instance i
AbortAllOn(i) ==
    /\ LET r   == RegistryOf(i)
           reg == {fleet.registries[r][k] : k \in DOMAIN fleet.registries[r]}
       IN fleet' = [fleet EXCEPT
                      !.ctrls = [c \in DOMAIN @ |->
                                   IF c \in reg THEN [@[c] EXCEPT !.aborted = TRUE]
                                   ELSE @[c]],
                      !.registries[r] = EmptyMap,
                      !.last = i]
    /\ FleetFrame

NextFleet ==
    \/ Construct
    \/ \E i \in 1..Len(fleet.instances) : IssueCall(i)
    \/ \E i \in 1..Len(fleet.instances) : AbortAllOn(i)

SpecFleet == InitFleet /\ [][NextFleet]_vars

\* -------------------------------------------------------------- TaskQueue
\* Specification SpecQueue: one TaskQueue and the tasks added to it.  A task
\* is a function that returns a promise which later fulfils or rejects, or
\* that throws before it returns one.  tasks[t].promise is the promise add
\* returned for task t; started lists the tasks in the order #next called
\* them; unhandled holds the tasks whose throw escaped a finally callback.
TaskKinds == {"fulfils", "rejects", "throws"}

Concurrencies == 1..MaxConcurrency

InitQueue ==
    /\ token = Null
    /\ logRequests = FALSE
    /\ defaultTimeout = 0
    /\ defaultRetries = 0
    /\ controllers = EmptyMap
    /\ calls = <<>>
    /\ fleet = NoFleet
    /\ th = NoTimers
    /\ \E concurrency \in Concurrencies :
         tq = [stage |-> "queue", concurrency |-> concurrency, queue |-> <<>>,
               activeCount |-> 0, tasks |-> <<>>, started |-> <<>>,
               unhandled |-> {}]

QueueFrame == UNCHANGED <<token, defaultTimeout, defaultRetries, logRequests,
                          controllers, calls, fleet, th>>

\* slip: the task added last is taken
Shift_pop(queue) ==
    [task |-> queue[Len(queue)], rest |-> SubSeq(queue, 1, Len(queue) - 1)]

\* this.queue.shift()
Shift(queue) == [task |-> Head(queue), rest |-> Tail(queue)]

\* #next(): the queue after the call, and whether the call threw (the task
\* threw before .finally could be attached to its promise)
next(q) ==
    IF q.activeCount >= q.concurrency \/ q.queue = <<>>
      THEN [q |-> q, threw |-> FALSE]
    ELSE LET sh == Shift(q.queue)
             t  == sh.task
             q1 == [q EXCEPT !.queue = sh.rest, !.activeCount = @ + 1,
                             !.started = Append(@, t)]
         IN IF q.tasks[t].kind = "throws"
              THEN [q |-> [q1 EXCEPT !.tasks[t].state = "threw"], threw |-> TRUE]
              ELSE [q |-> [q1 EXCEPT !.tasks[t].state = "running"], threw |-> FALSE]

\* add(task): the executor pushes the wrapped task and calls #next; a throw
\* out of the executor rejects the promise that is being constructed
Add ==
    /\ tq.stage = "queue"
    /\ Len(tq.tasks) < MaxTasks
    /\ \E kind \in TaskKinds :
         LET n  == Len(tq.tasks) + 1
             q0 == [tq EXCEPT !.tasks = Append(@, [kind |-> kind, state |-> "queued",
                                                   promise |-> "pending"]),
                              !.queue = Append(@, n)]
             r  == next(q0)
         IN tq' = IF r.threw THEN [r.q EXCEPT !.tasks[n].promise = "rejected"]
                  ELSE r.q
    /\ QueueFrame

\* the promise of running task t settles: task().then(resolve).catch(reject)
TaskSettles(t) ==
    /\ tq.tasks[t].state = "running"
    /\ tq' = [tq EXCEPT !.tasks[t].state = "settled",
                        !.tasks[t].promise = IF tq.tasks[t].kind = "fulfils"
                                               THEN "resolved" ELSE "rejected"]
    /\ QueueFrame

\* the finally callback of task t: activeCount--, #next(); a throw out of the
\* callback is an unhandled rejection
Finally(t) ==
    /\ tq.tasks[t].state = "settled"
    /\ LET r == next([tq EXCEPT !.tasks[t].state = "done", !.activeCount = @ - 1])
       IN tq' = IF r.threw
                  THEN [r.q EXCEPT !.unhandled = @ \cup {r.q.started[Len(r.q.started)]}]
                  ELSE r.q
    /\ QueueFrame

NextQueue ==
    \/ Add
    \/ \E t \in 1..Len(tq.tasks) : TaskSettles(t)
    \/ \E t \in 1..Len(tq.tasks) : Finally(t)

SpecQueue == InitQueue /\ [][NextQueue]_vars

\* The finally callback is a microtask and runs once the promise it hangs on
\* has settled; that every started task's promise settles is the premise of
\* the claims checked under this specification.
FairSpecQueue ==
    /\ SpecQueue
    /\ \A t \in 1..MaxTasks :
         /\ WF_vars(t \in 1..Len(tq.tasks) /\ TaskSettles(t))
         /\ WF_vars(t \in 1..Len(tq.tasks) /\ Finally(t))

\* ------------------------------------- IntervalsHandler and TimeoutsHandler
\* Specification SpecTimers: one handler of either class.  th.tokens is the
\* Map #tokens as its entries in insertion order (token, timer id);
\* th.timers are the timers setInterval / setTimeout created, with live =
\* the platform still holds the timer (not cleared, and for a timeout not
\* fired).  A callback does nothing, sets its own token again, clears its own
\* token, or throws.  History kept per timer: ran (its callback has run),
\* swept (a clearAll visited it), late (its callback ran after that).
HandlerKinds == {"interval", "timeout"}

TimerTokens == {"a", "b"}

CallBacks == {"noop", "rearm", "clearOwn", "throws"}

InitTimers ==
    /\ token = Null
    /\ logRequests = FALSE
    /\ defaultTimeout = 0
    /\ defaultRetries = 0
    /\ controllers = EmptyMap
    /\ calls = <<>>
    /\ fleet = NoFleet
    /\ tq = NoQueue
    /\ \E kind \in HandlerKinds :
         th = [stage |-> "timers", kind |-> kind, tokens |-> <<>>, timers |-> <<>>]

TimersFrame == UNCHANGED <<token, defaultTimeout, defaultRetries, logRequests,
                           controllers, calls, fleet, tq>>

\* Map.prototype.has / get / delete / set on the entries in insertion order
TokensHas(entries, tk) == \E i \in 1..Len(entries) : entries[i].token = tk

TokensGet(entries, tk) ==
    entries[CHOOSE i \in 1..Len(entries) : entries[i].token = tk].id

TokensDelete(entries, tk) == SelectSeq(entries, LAMBDA e : e.token # tk)

TokensSet(entries, tk, id) ==
    IF TokensHas(entries, tk)
      THEN [i \in 1..Len(entries) |->
              IF entries[i].token = tk THEN [token |-> tk, id |-> id] ELSE entries[i]]
      ELSE Append(entries, [token |-> tk, id |-> id])

\* clear(token): clearInterval / clearTimeout of the recorded id, then delete
clear(h, tk) ==
    IF ~TokensHas(h.tokens, tk) THEN h
    ELSE [h EXCEPT !.timers[TokensGet(h.tokens, tk)].live = FALSE,
                   !.tokens = TokensDelete(@, tk)]

\* set(token, callBack, ms) with valid arguments
set(h, tk, cb) ==
    LET h0 == clear(h, tk) IN
    [h0 EXCEPT !.timers = Append(@, [token |-> tk, cb |-> cb, live |-> TRUE,
                                     ran |-> FALSE, swept |-> FALSE,
                                     late |-> FALSE]),
               !.tokens = TokensSet(@, tk, Len(h0.timers) + 1)]

\* slip: the entries are walked by index while they are deleted, which skips
\* the entry after each deleted one
clearAll_skipping(h) ==
    LET visited == {h.tokens[i].id : i \in {k \in 1..Len(h.tokens) : k % 2 = 1}} IN
    [h EXCEPT !.timers = [n \in DOMAIN @ |->
                            IF n \in visited
                              THEN [@[n] EXCEPT !.live = FALSE, !.swept = TRUE]
                              ELSE @[n]],
              !.tokens = [k \in 1..(Len(@) \div 2) |-> @[2 * k]]]

\* clearAll(): Map.prototype.forEach visits every entry once, also when the
\* callback deletes the entry it is visiting; swept marks the timers visited
RECURSIVE clearAll(_)
clearAll(h) ==
    IF h.tokens = <<>> THEN h
    ELSE clearAll(clear([h EXCEPT !.timers[h.tokens[1].id].swept = TRUE],
                        h.tokens[1].token))

Set ==
    /\ th.stage = "timers"
    /\ Len(th.timers) < MaxTimers
    /\ \E tk \in TimerTokens, cb \in CallBacks : th' = set(th, tk, cb)
    /\ TimersFrame

Clear ==
    /\ th.stage = "timers"
    /\ \E tk \in TimerTokens : th' = clear(th, tk)
    /\ TimersFrame

ClearAll ==
    /\ th.stage = "timers"
    /\ th' = clearAll(th)
    /\ TimersFrame

\* what the callback of timer n does to the handler
RunCallBack(h, n) ==
    LET h0 == [h EXCEPT !.timers[n].ran = TRUE, !.timers[n].late = h.timers[n].swept] IN
    IF h.timers[n].cb = "rearm" THEN set(h0, h.timers[n].token, "noop")
    ELSE IF h.timers[n].cb = "clearOwn" THEN clear(h0, h.timers[n].token)
    ELSE h0

\* timer n fires.  An interval stays with the platform and runs callBack; a
\* timeout leaves the platform and runs () => { callBack();
\* this.#tokens.delete(token) }, whose delete is skipped when callBack throws
Fires(n) ==
    /\ th.stage = "timers"
    /\ th.timers[n].live
    /\ th.timers[n].cb = "rearm" => Len(th.timers) < MaxTimers
    /\ th' = IF th.kind = "interval" THEN RunCallBack(th, n)
             ELSE LET h1 == RunCallBack([th EXCEPT !.timers[n].live = FALSE], n) IN
                  IF th.timers[n].cb = "throws" THEN h1
                  ELSE [h1 EXCEPT !.tokens = TokensDelete(@, th.timers[n].token)]
    /\ TimersFrame

NextTimers ==
    \/ Set
    \/ Clear
    \/ ClearAll
    \/ \E n \in 1..Len(th.timers) : Fires(n)

SpecTimers == InitTimers /\ [][NextTimers]_vars

\* ------------------------------------------- set with arguments of any type
\* Specification SpecTimersArgs: the handlers of SpecTimers with set called on
\* arguments of any type.  An argument is its typeof and its text in a
\* template literal; th.lastSet is what the last call of set threw, if it did.
TokenArgs ==
    {[type |-> "string", text |-> "a"], [type |-> "string", text |-> "b"],
     [type |-> "number", text |-> "42"], [type |-> "undefined", text |-> "undefined"]}

CallBackArgs ==
    {[type |-> "function", text |-> "() => {}"],
     [type |-> "string", text |-> "tick"],
     [type |-> "undefined", text |-> "undefined"]}

MsArgs ==
    {[type |-> "number", nan |-> FALSE, text |-> "10"],
     [type |-> "number", nan |-> TRUE, text |-> "NaN"],
     [type |-> "string", nan |-> FALSE, text |-> "10"]}

NoThrow == [threw |-> FALSE]

Thrown(message) == [threw |-> TRUE, message |-> message]

InitTimersArgs ==
    /\ token = Null
    /\ logRequests = FALSE
    /\ defaultTimeout = 0
    /\ defaultRetries = 0
    /\ controllers = EmptyMap
    /\ calls = <<>>
    /\ fleet = NoFleet
    /\ tq = NoQueue
    /\ \E kind \in HandlerKinds :
         th = [stage |-> "timers", kind |-> kind, tokens |-> <<>>, timers |-> <<>>,
               lastSet |-> NoThrow, lastArgs |-> <<>>]

\* slip: the timer of the token is cleared before the arguments are checked
setChecked_clearFirst(h, tk, callBack, ms) ==
    LET h0 == IF tk.type = "string" THEN clear(h, tk.text) ELSE h IN
    IF tk.type # "string"
      THEN [h0 EXCEPT !.lastSet = Thrown(tk.text \o " is not a string")]
    ELSE IF callBack.type # "function"
      THEN [h0 EXCEPT !.lastSet = Thrown(callBack.text \o " is not a function")]
    ELSE IF ms.type # "number" \/ ms.nan
      THEN [h0 EXCEPT !.lastSet = Thrown(ms.text \o " is not a number")]
    ELSE [set(h0, tk.text, "noop") EXCEPT !.lastSet = NoThrow]

\* set(token, callBack, ms): the three checks, then the body of set
setChecked(h, tk, callBack, ms) ==
    IF tk.type # "string"
      THEN [h EXCEPT !.lastSet = Thrown(tk.text \o " is not a string")]
    ELSE IF callBack.type # "function"
      THEN [h EXCEPT !.lastSet = Thrown(callBack.text \o " is not a function")]
    ELSE IF ms.type # "number" \/ ms.nan
      THEN [h EXCEPT !.lastSet = Thrown(ms.text \o " is not a number")]
    ELSE [set(h, tk.text, "noop") EXCEPT !.lastSet = NoThrow]

SetArgs ==
    /\ th.stage = "timers"
    /\ Len(th.timers) < MaxTimers
    /\ \E tk \in TokenArgs, callBack \in CallBackArgs, ms \in MsArgs :
         th' = [setChecked(th, tk, callBack, ms) EXCEPT
                  !.lastArgs = <<tk, callBack, ms>>]
    /\ TimersFrame

NextTimersArgs ==
    \/ SetArgs
    \/ Clear
    \/ ClearAll
    \/ \E n \in 1..Len(th.timers) : Fires(n)

SpecTimersArgs == InitTimersArgs /\ [][NextTimersArgs]_vars

\* C11: for each key at most one call in flight has an untriggered handle, and
\* that handle is the one registered under the key; an older call under the
\* key is already triggered and evicted in every state in which the newer
\* call has dispatched.
C11_OneActiveHandlePerKey ==
    \A c \in CallIds :
        (InFlight(c) /\ ~calls[c].aborted) =>
            /\ Registered(c)
            /\ \A d \in CallIds :
                 (d # c /\ InFlight(d) /\ ~calls[d].aborted) => ~SameKey(c, d)

C11_Witness ==
    \E c \in CallIds : \E d \in CallIds :
        /\ c < d /\ SameKey(c, d)
        /\ InFlight(c) /\ calls[c].aborted /\ ~Registered(c)
        /\ InFlight(d) /\ ~calls[d].aborted /\ Registered(d)
        /\ Len(calls[d].sent) = 1

\* C12: issuing a call leaves every earlier call with a different method or a
\* different full URL (query string included) exactly as it was, and leaves
\* the registry entry of that call's key as it was.
C12_OtherKeysUntouched ==
    [][Len(calls') > Len(calls) =>
         LET new == calls'[Len(calls')] IN
         \A c \in CallIds :
            (calls[c].method # new.method \/ calls[c].sent[1].url # new.sent[1].url) =>
                /\ calls'[c] = calls[c]
                /\ Registered(c) => (Registered(c))']_vars

C12_Witness ==
    \E c \in CallIds : \E d \in CallIds :
        /\ c < d
        /\ calls[c].method = calls[d].method
        /\ calls[c].path = calls[d].path
        /\ calls[c].sent[1].url # calls[d].sent[1].url
        /\ InFlight(c) /\ ~calls[c].aborted /\ Registered(c)
        /\ InFlight(d) /\ ~calls[d].aborted /\ Registered(d)

\* C13: a timer is armed only for an effective timeout > 0 and only while its
\* own attempt waits for fetch; it is armed for every such attempt until it
\* fires, and no timer is left over in a later attempt, in the body phase or
\* after the call has settled, so a call never has two armed timers.
C13_TimerDiscipline ==
    \A c \in CallIds :
        /\ Cardinality(calls[c].timers) <= 1
        /\ calls[c].timers # {} =>
              /\ timeoutMsOf(calls[c]) > 0
              /\ calls[c].pc = "fetch"
              /\ calls[c].timers = {calls[c].attempt}
        /\ (calls[c].pc = "fetch" /\ timeoutMsOf(calls[c]) > 0
                /\ calls[c].cancelBy # "timeout") =>
              calls[c].timers = {calls[c].attempt}

C13_Witness ==
    \E c \in CallIds : \E d \in CallIds :
        /\ calls[c].attempt = 1 /\ calls[c].pc = "fetch" /\ calls[c].timers = {1}
        /\ timeoutMsOf(calls[d]) > 0 /\ calls[d].pc = "okbody" /\ calls[d].timers = {}

\* C14: with an effective timeout > 0 every call eventually settles, whatever
\* the transport does.
C14_TimeoutCallsSettle ==
    \A c \in 1..MaxCalls :
        (c \in CallIds /\ timeoutMsOf(calls[c]) > 0) ~> (c \in CallIds /\ Done(c))

\* C18: with logging on for the instance or forced for the call, every attempt
\* that has ended left exactly one log line with the method, the path, the
\* status or an outcome tag and the 1-based attempt index, so a settled call
\* has as many lines as attempts; with both switches off it has none.
LogOn(c) == logRequests \/ (Has(calls[c].opts, "log") /\ calls[c].opts.log)

AttemptsEnded(c) == IF Done(c) THEN Len(calls[c].sent) ELSE Len(calls[c].sent) - 1

LogStatuses == {"ABORT", "RETRY", "ERROR"} \cup {ToString(s) : s \in Statuses}

C18_OneLinePerAttempt ==
    \A c \in CallIds :
        /\ Len(calls[c].log) = (IF LogOn(c) THEN AttemptsEnded(c) ELSE 0)
        /\ \A i \in 1..Len(calls[c].log) :
              /\ calls[c].log[i].method = calls[c].method
              /\ calls[c].log[i].path = calls[c].path
              /\ calls[c].log[i].attempt = i
              /\ calls[c].log[i].status \in LogStatuses
              /\ i < Len(calls[c].log) => calls[c].log[i].status = "RETRY"

C18_Witness ==
    \E c, d \in CallIds :
        /\ LogOn(c) /\ Done(c) /\ Len(calls[c].sent) = 2 /\ Len(calls[c].log) = 2
        /\ calls[c].log[1].status = "RETRY"
        /\ ~LogOn(d) /\ Done(d) /\ calls[d].log = <<>>

\* C16: the dispatched Authorization header is the per-call headers'
\* Authorization if given, else Bearer of the per-call token if given, else
\* Bearer of the instance token if configured, else absent; the dispatched
\* Content-Type is the per-call headers' Content-Type if given, else the one
\* computed from the payload.
GivenHeader(opts, name) == Has(opts, "headers") /\ name \in DOMAIN opts.headers

C16_HeaderPrecedence ==
    \A c \in CallIds :
        LET h    == calls[c].sent[1].headers
            opts == calls[c].opts
        IN
        /\ IF GivenHeader(opts, "Authorization")
              THEN Has(h, "Authorization")
                     /\ h["Authorization"] = opts.headers["Authorization"]
            ELSE IF Has(opts, "token") /\ opts.token # ""
              THEN Has(h, "Authorization")
                     /\ h["Authorization"] = "Bearer " \o opts.token
            ELSE IF token # Null
              THEN Has(h, "Authorization") /\ h["Authorization"] = "Bearer " \o token
            ELSE ~Has(h, "Authorization")
        /\ h["Content-Type"] = (IF GivenHeader(opts, "Content-Type")
                                  THEN opts.headers["Content-Type"]
                                  ELSE ContentTypeOf(calls[c].data))

C16_Witness ==
    \E c \in CallIds :
        /\ calls[c].pc = "fetch"
        /\ Registered(c)
        /\ token = "t1"
        /\ Has(calls[c].opts, "token") /\ calls[c].opts.token = "o1"
        /\ GivenHeader(calls[c].opts, "Authorization")
        /\ GivenHeader(calls[c].opts, "Content-Type")
        /\ calls[c].data.kind = "object"
        /\ calls[c].sent[1].headers["Authorization"] = "Basic x"
        /\ calls[c].sent[1].headers["Content-Type"] = "application/xml"

\* C17: for post, put and patch the body and the computed content type follow
\* the payload kind (Blob: itself, its type or application/octet-stream;
\* FormData: itself, multipart/form-data; plain object: its JSON text,
\* application/json; string: verbatim, text/plain), and a response declared
\* application/json that carries the serialized object decodes to an equal one.
C17_BodyByPayloadKind ==
    \A c \in CallIds :
        calls[c].method \in {"POST", "PUT", "PATCH"} =>
            LET d  == calls[c].data
                b  == calls[c].sent[1].body
                ct == calls[c].sent[1].headers["Content-Type"]
                computed(t) == GivenHeader(calls[c].opts, "Content-Type") \/ ct = t
            IN
            /\ d.kind = "blob" =>
                  /\ b = [kind |-> "blob", type |-> d.type]
                  /\ computed(IF d.type = "" THEN "application/octet-stream" ELSE d.type)
            /\ d.kind = "formdata" =>
                  b = [kind |-> "formdata"] /\ computed("multipart/form-data")
            /\ d.kind = "object" =>
                  /\ b.kind = "text" /\ computed("application/json")
                  /\ JSONparse(b.text) = d
                  /\ d.entries = <<[key |-> "id", isArray |-> TRUE, items |-> <<1, 2>>]>>
                        => b.text = "{\"id\":[1,2]}"
            /\ d.kind = "string" =>
                  b = [kind |-> "text", text |-> d.text] /\ computed("text/plain")
            /\ (d.kind = "object" /\ Done(c)) =>
                  /\ calls[c].outcome.tag = "payload"
                  /\ calls[c].outcome.declared = "application/json; charset=utf-8"
                        => calls[c].outcome.value = d

C17_Witness ==
    \E c \in CallIds :
        /\ Done(c)
        /\ calls[c].method = "POST"
        /\ calls[c].data.kind = "object"
        /\ Len(calls[c].data.entries) = 2
        /\ calls[c].data.entries[1].isArray /\ calls[c].data.entries[1].items = <<1, 2>>
        /\ ~calls[c].data.entries[2].isArray /\ calls[c].data.entries[2].value = 10
        /\ ~GivenHeader(calls[c].opts, "Content-Type")
        /\ calls[c].sent[1].body.text = "{\"id\":[1,2],\"q\":10}"
        /\ calls[c].sent[1].headers["Content-Type"] = "application/json"
        /\ calls[c].outcome.tag = "payload"
        /\ calls[c].outcome.declared = "application/json; charset=utf-8"
        /\ calls[c].outcome.value = calls[c].data

\* C19: get(path, params) requests the path resolved against the base URL, with
\* one key=value pair per element of an array entry, in element order, and one
\* pair per scalar entry; get('/users', {id: [1, 2]}) requests
\* https://api.test/users?id=1&id=2.
PairsOf(e) ==
    IF e.isArray
      THEN [i \in 1..Len(e.items) |-> e.key \o "=" \o ToString(e.items[i])]
      ELSE <<e.key \o "=" \o ToString(e.value)>>

RECURSIVE Flatten(_)
Flatten(entries) ==
    IF entries = <<>> THEN <<>> ELSE PairsOf(Head(entries)) \o Flatten(Tail(entries))

RECURSIVE QueryOf(_)
QueryOf(pairs) ==
    IF pairs = <<>> THEN "" ELSE "&" \o Head(pairs) \o QueryOf(Tail(pairs))

C19_QueryFromParams ==
    \A c \in CallIds :
        calls[c].method = "GET" =>
            LET data  == calls[c].data
                url   == calls[c].sent[1].url
                pairs == IF data.kind = "object" THEN Flatten(data.entries) ELSE <<>>
                q     == QueryOf(pairs)
            IN
            /\ url = "https://api.test" \o calls[c].path
                        \o (IF pairs = <<>> THEN "" ELSE "?" \o SubSeq(q, 2, Len(q)))
            /\ (calls[c].path = "/users" /\ data = ObjData) =>
                   url = "https://api.test/users?id=1&id=2"

C19_Witness ==
    \E c \in CallIds :
        /\ calls[c].pc = "fetch"
        /\ calls[c].method = "GET"
        /\ calls[c].path = "/users"
        /\ calls[c].data = ObjData
        /\ calls[c].sent[1].url = "https://api.test/users?id=1&id=2"
        /\ DOMAIN controllers = {"GET::https://api.test/users?id=1&id=2"}

\* C15: a constructor call with a root that is not a string, is empty or does
\* not start with http:// or https:// throws, and leaves the instances, their
\* registries and the controllers of dispatched calls as they were.
C15_InvalidRootThrows ==
    [][Len(fleet'.news) > Len(fleet.news) =>
         LET new  == fleet'.news[Len(fleet'.news)]
             root == new.root
             bad  == \/ root.kind # "string"
                     \/ root.text = ""
                     \/ /\ SubSeq(root.text, 1, 7) # "http://"
                        /\ SubSeq(root.text, 1, 8) # "https://"
         IN bad => /\ new.threw
                   /\ fleet'.instances = fleet.instances
                   /\ fleet'.registries = fleet.registries
                   /\ fleet'.ctrls = fleet.ctrls]_vars

C15_Witness ==
    /\ fleet.stage = "fleet"
    /\ Len(fleet.news) = 2
    /\ ~fleet.news[1].threw
    /\ fleet.news[2].root = StrRoot("not-a-url") /\ fleet.news[2].threw
    /\ Len(fleet.instances) = 1
    /\ Len(fleet.ctrls) = 1 /\ ~fleet.ctrls[1].aborted
    /\ fleet.last = 0

\* C20: a call or an abortAll on one instance leaves the registry of every
\* other instance and the controllers of its calls untouched, also under the
\* same method and URL.
C20_RegistryPerInstance ==
    [][fleet.stage = "fleet" =>
         \A j \in 1..Len(fleet.instances) :
             fleet'.last # j =>
                 /\ fleet'.registries[j] = fleet.registries[j]
                 /\ \A c \in 1..Len(fleet.ctrls) :
                       fleet.ctrls[c].owner = j => fleet'.ctrls[c] = fleet.ctrls[c]]_vars

C20_Witness ==
    /\ fleet.stage = "fleet"
    /\ \E c, d \in 1..Len(fleet.ctrls) :
         /\ fleet.ctrls[c].owner = 1 /\ fleet.ctrls[d].owner = 2
         /\ fleet.ctrls[c].key = fleet.ctrls[d].key
         /\ c < d
         /\ ~fleet.ctrls[c].aborted
         /\ fleet.ctrls[c].key \in DOMAIN fleet.registries[1]
         /\ fleet.registries[1][fleet.ctrls[c].key] = c
         /\ fleet.ctrls[d].aborted
         /\ fleet.registries[2] = EmptyMap
         /\ fleet.last = 2

\* C21: 0 <= activeCount <= concurrency, and activeCount is the number of
\* tasks that were started and whose promise chain has not settled yet.
TaskIds == 1..Len(tq.tasks)

Occupying == {t \in TaskIds : tq.tasks[t].state \in {"running", "settled"}}

C21_ActiveCountIsRunning ==
    tq.stage = "queue" =>
        /\ 0 <= tq.activeCount
        /\ tq.activeCount <= tq.concurrency
        /\ tq.activeCount = Cardinality(Occupying)

\* C22: while tasks wait in the queue every slot is occupied, and, the started
\* tasks' promises all settling, every added task is eventually started and
\* the promise add returned for it resolves if the task fulfils and rejects
\* if it fails.
C22_WorkConservingNoStarvation ==
    /\ [](tq.stage = "queue" /\ tq.queue # <<>> => tq.activeCount = tq.concurrency)
    /\ \A t \in 1..MaxTasks :
         (t \in TaskIds) ~>
            (/\ t \in TaskIds
             /\ tq.tasks[t].state # "queued"
             /\ tq.tasks[t].promise = (IF tq.tasks[t].kind = "fulfils"
                                         THEN "resolved" ELSE "rejected"))

\* C29: tasks are started in the order they were added.
C29_StartedInAddOrder ==
    tq.stage = "queue" =>
        \A i, j \in 1..Len(tq.started) : i < j => tq.started[i] < tq.started[j]

C29_Witness ==
    /\ tq.stage = "queue"
    /\ tq.concurrency = 1
    /\ tq.started = <<1, 2, 3>>
    /\ tq.tasks[1].state = "done" /\ tq.tasks[2].state = "done"

\* C30: a task that fails, by a rejected promise or by a throw, gives its slot
\* back: a waiting task gets the slot, and once every added task has finished
\* activeCount is 0.
C30_FailureReleasesSlot ==
    tq.stage = "queue" =>
        /\ tq.queue # <<>> => Cardinality(Occupying) = tq.concurrency
        /\ (\A t \in TaskIds : tq.tasks[t].state \in {"done", "threw"})
              => tq.activeCount = 0

\* C23: in every state of a handler each token has at most one live timer,
\* the live timers are exactly the recorded ones (no orphan keeps running
\* after its token was set again or cleared), and inProgress / pending is
\* their number.
LiveTimers == {n \in 1..Len(th.timers) : th.timers[n].live}

Recorded == {th.tokens[i].id : i \in 1..Len(th.tokens)}

C23_OneLiveTimerPerToken ==
    th.stage = "timers" =>
        /\ \A m, n \in LiveTimers : th.timers[m].token = th.timers[n].token => m = n
        /\ LiveTimers = Recorded
        /\ Len(th.tokens) = Cardinality(LiveTimers)
        /\ \A i \in 1..Len(th.tokens) : th.timers[th.tokens[i].id].token = th.tokens[i].token

\* C24: isPending(token) is true exactly while a timeout set under the token
\* is armed, whatever the fired callbacks do.
C24_IsPendingIffArmed ==
    (th.stage = "timers" /\ th.kind = "timeout") =>
        \A tk \in TimerTokens :
            TokensHas(th.tokens, tk) <=> \E n \in LiveTimers : th.timers[n].token = tk

\* C25: clearAll cancels every timer recorded in the token map and leaves the
\* map empty, and no callback of a timer it visited runs afterwards.
C25_ClearAllCancelsAll ==
    [][th.stage = "timers" =>
         /\ (\E n \in 1..Len(th.timers) : ~th.timers[n].swept /\ th'.timers[n].swept) =>
               /\ th'.tokens = <<>>
               /\ \A i \in 1..Len(th.tokens) :
                     /\ ~th'.timers[th.tokens[i].id].live
                     /\ th'.timers[th.tokens[i].id].swept
         /\ \A n \in 1..Len(th'.timers) :
               th'.timers[n].swept => ~th'.timers[n].live /\ ~th'.timers[n].late]_vars

C25_Witness ==
    /\ th.stage = "timers"
    /\ th.tokens = <<>>
    /\ Len(th.timers) = 3
    /\ th.timers[2].token = "a" /\ th.timers[3].token = "b"
    /\ th.timers[2].swept /\ th.timers[3].swept
    /\ th.timers[2].ran
    /\ \A n \in 1..3 : ~th.timers[n].live

\* C26: a call that is not cancelled stops at its first attempt that receives
\* a success status: that attempt k is its dispatch k+1, no dispatch follows
\* it, and the call resolves with the payload decoded from it.
C26_StopsAtFirstSuccess ==
    [][\A c \in CallIds :
         (calls[c].pc = "okbody" /\ ~calls[c].aborted /\ ~calls'[c].aborted) =>
             /\ Len(calls[c].sent) = calls[c].attempt + 1
             /\ calls'[c].sent = calls[c].sent
             /\ calls'[c].pc # "okbody" =>
                   calls'[c].pc = "done" /\ calls'[c].outcome.tag = "payload"]_vars

\* C28: once the transport has returned a response no timer of the call is
\* armed while its body is read, and a call is cancelled in that phase only by
\* a newer call under its key or by abortAll.
C28_NoTimeoutWhileBodyRead ==
    [][\A c \in CallIds :
         calls[c].pc \in {"okbody", "errbody"} =>
             /\ calls[c].timers = {}
             /\ (~calls[c].aborted /\ calls'[c].aborted) =>
                   calls'[c].cancelBy \in {"supersede", "abortAll"}]_vars

C28_Witness ==
    \E c \in CallIds :
        /\ timeoutMsOf(calls[c]) > 0
        /\ calls[c].pc = "errbody"
        /\ calls[c].timers = {}
        /\ calls[c].aborted
        /\ calls[c].cancelBy = "abortAll"

\* C27: a per-call retries or timeout is used also when it is 0, and the
\* instance default is used when the option is absent: a call makes at most
\* 1 + retries attempts and makes them all before it fails for good, no timer
\* is armed for a timeout of 0, and one is armed while the transport is
\* awaited for a timeout above 0.
C27_ZeroOverridesDefault ==
    \A c \in CallIds :
        LET o == calls[c].opts
            r == IF "retries" \in DOMAIN o THEN o.retries ELSE defaultRetries
            t == IF "timeout" \in DOMAIN o THEN o.timeout ELSE defaultTimeout
        IN
        /\ Len(calls[c].sent) <= 1 + r
        /\ (Done(c) /\ calls[c].outcome.tag = "nok" /\ ~calls[c].aborted) =>
               Len(calls[c].sent) = 1 + r
        /\ t = 0 => calls[c].timers = {} /\ calls[c].cancelBy # "timeout"
        /\ (t > 0 /\ calls[c].pc = "fetch" /\ ~calls[c].aborted) =>
               calls[c].timers # {}

C27_Witness ==
    /\ defaultRetries > 0
    /\ defaultTimeout > 0
    /\ \E c, d \in CallIds :
         /\ calls[c].opts = [retries |-> 0]
         /\ Done(c) /\ calls[c].outcome.tag = "nok" /\ ~calls[c].aborted
         /\ Len(calls[c].sent) = 1
         /\ calls[d].opts = [timeout |-> 0]
         /\ calls[d].pc = "fetch" /\ calls[d].timers = {}

\* C31: set with a token that is not a string, a callBack that is not a
\* function or an ms that is not a number or is NaN throws and leaves the
\* handler as it was: no timer is created, and the timer recorded under the
\* token stays recorded and live.
C31_InvalidSetChangesNothing ==
    [][(th.stage = "timers" /\ "lastArgs" \in DOMAIN th
          /\ th'.lastArgs # <<>>
          /\ (th'.lastArgs # th.lastArgs \/ th'.lastSet # th.lastSet)) =>
         LET tk       == th'.lastArgs[1]
             callBack == th'.lastArgs[2]
             ms       == th'.lastArgs[3]
             bad      == \/ tk.type # "string"
                         \/ callBack.type # "function"
                         \/ ms.type # "number"
                         \/ ms.nan
         IN bad => /\ th'.lastSet.threw
                   /\ th'.tokens = th.tokens
                   /\ th'.timers = th.timers]_vars

C31_Witness ==
    /\ th.stage = "timers"
    /\ "lastArgs" \in DOMAIN th
    /\ th.lastArgs # <<>>
    /\ th.lastArgs[1] = [type |-> "string", text |-> "a"]
    /\ th.lastArgs[2].type = "string"
    /\ th.lastSet = Thrown("tick is not a function")
    /\ Len(th.timers) = 1
    /\ th.timers[1].token = "a" /\ th.timers[1].live
    /\ th.tokens = <<[token |-> "a", id |-> 1]>>

====
